---- MODULE Spec2Model ----
(***************************************************************************)
(* A model of scripts/transcripts.py: the contextual-bandit transcript     *)
(* generator.                                                              *)
(*                                                                         *)
(* A Python str is a sequence of one-character strings, so that lower(),   *)
(* startswith(), "in", replace() and "\n".join() are computed character by *)
(* character, as the interpreter computes them.  Dictionary keys, which    *)
(* the code only looks up, are TLA+ strings.                               *)
(***************************************************************************)
EXTENDS Integers, Sequences, FiniteSets, TLC

VARIABLES
    pc,             \* the position of the function under study
    choice,         \* map_choice_to_action: its argument
    action,         \* map_choice_to_action: its return value
    fieldnames,     \* parse_participant_data: the reader's header
    reader,         \* parse_participant_data: the rows not yet read
    consumed,       \* the rows the reader has handed to the loop, in order
    trials,         \* the list of trial dictionaries
    participant_id, \* generate_transcript: the participant's identifier
    transcript,     \* generate_transcript: the document it returns
    data_dir,       \* process_all_participants: the files of data_dir
    csv_files,      \* the discovered files, sorted
    file_no,        \* the position in csv_files of the loop's csv_file
    output_dir,     \* the files of output_dir and their contents
    output_before,  \* output_dir as it was when the run began
    log,            \* what became of each participant, in processing order
    opened,         \* each open(output_file, 'w') made, in order
    rendered        \* the files generate_transcript was called for

vars == <<pc, choice, action, fieldnames, reader, consumed, trials,
          participant_id, transcript, data_dir, csv_files, file_no,
          output_dir, output_before, log, opened, rendered>>

mapVars == <<choice, action>>
parseVars == <<fieldnames, reader, consumed>>
renderVars == <<participant_id, transcript>>
batchVars == <<data_dir, csv_files, file_no, output_dir, output_before, log,
               opened, rendered>>

(***************************************************************************)
(* str methods                                                             *)
(***************************************************************************)
UpperCase == <<"A", "B", "C", "D", "E", "F", "G", "H", "I", "J", "K", "L", "M",
               "N", "O", "P", "Q", "R", "S", "T", "U", "V", "W", "X", "Y", "Z">>

LowerCase == <<"a", "b", "c", "d", "e", "f", "g", "h", "i", "j", "k", "l", "m",
               "n", "o", "p", "q", "r", "s", "t", "u", "v", "w", "x", "y", "z">>

\* str.lower() on one character: an upper-case letter becomes its lower-case
\* letter, every other character is kept.
LowerChar(c) ==
    IF \E k \in 1..26 : UpperCase[k] = c
    THEN LowerCase[CHOOSE k \in 1..26 : UpperCase[k] = c]
    ELSE c

\* str.lower()
lower(s) == [k \in 1..Len(s) |-> LowerChar(s[k])]

\* sub in s
Contains(s, sub) ==
    \E k \in 1..(Len(s) - Len(sub) + 1) : SubSeq(s, k, k + Len(sub) - 1) = sub

\* s.startswith(prefix)
StartsWith(s, prefix) ==
    /\ Len(s) >= Len(prefix)
    /\ SubSeq(s, 1, Len(prefix)) = prefix

(***************************************************************************)
(* map_choice_to_action                                                    *)
(***************************************************************************)
map_choice_to_action_WhiteFirst(c) ==
    LET choice_lower == lower(c) IN
    IF Contains(choice_lower, <<"w", "h", "i", "t", "e">>)
    THEN <<"W", "h", "i", "t", "e">>
    ELSE IF Contains(choice_lower, <<"r", "e", "d">>)
    THEN <<"R", "e", "d">>
    ELSE IF Contains(choice_lower, <<"b", "l", "a", "c", "k">>)
    THEN <<"B", "l", "a", "c", "k">>
    ELSE <<"U", "n", "k", "n", "o", "w", "n">>

map_choice_to_action(c) ==
    LET choice_lower == lower(c) IN
    IF Contains(choice_lower, <<"r", "e", "d">>)
    THEN <<"R", "e", "d">>
    ELSE IF Contains(choice_lower, <<"w", "h", "i", "t", "e">>)
    THEN <<"W", "h", "i", "t", "e">>
    ELSE IF Contains(choice_lower, <<"b", "l", "a", "c", "k">>)
    THEN <<"B", "l", "a", "c", "k">>
    ELSE <<"U", "n", "k", "n", "o", "w", "n">>

(***************************************************************************)
(* The raw choice strings the mapping is run on: every concatenation of at *)
(* most MaxChunks pieces, so that a keyword can stand alone, in either     *)
(* case, inside a longer code, across two pieces, or beside another one.   *)
(***************************************************************************)
MaxChunks == 2

Chunks ==
    { <<"r", "e", "d">>, <<"R", "E", "D">>, <<"r", "e">>, <<"d">>,
      <<"w", "h", "i", "t", "e">>, <<"W", "h", "I", "t", "E">>,
      <<"b", "l", "a", "c", "k">>, <<"B", "L", "A", "C", "K">>,
      <<"b", "l", "u", "e">>, <<"_", "p", "i", "r", "a", "t", "e">> }

RECURSIVE Concats(_)
Concats(n) ==
    IF n = 0 THEN {<<>>}
    ELSE Concats(n - 1) \cup {a \o c : a \in Concats(n - 1), c \in Chunks}

ChoiceStrings == Concats(MaxChunks)

IdleMap == choice = <<>> /\ action = <<>>

IdleParse == fieldnames = <<>> /\ reader = <<>> /\ consumed = <<>>

IdleRender == participant_id = <<>> /\ transcript = <<>>

IdleBatch ==
    /\ data_dir = <<>>
    /\ csv_files = <<>>
    /\ file_no = 0
    /\ output_dir = <<>>
    /\ output_before = <<>>
    /\ log = <<>>
    /\ opened = <<>>
    /\ rendered = <<>>

InitMap ==
    /\ pc = "call"
    /\ choice \in ChoiceStrings
    /\ action = <<>>
    /\ IdleParse
    /\ trials = <<>>
    /\ IdleRender
    /\ IdleBatch

MapChoice ==
    /\ pc = "call"
    /\ action' = map_choice_to_action(choice)
    /\ pc' = "return"
    /\ UNCHANGED <<choice, parseVars, trials, renderVars, batchVars>>

NextMap == MapChoice

SpecMap == InitMap /\ [][NextMap]_vars

(***************************************************************************)
(* csv.DictReader and dict.get                                             *)
(***************************************************************************)
\* A Python value that is either None or a str.
None == [none |-> TRUE, s |-> <<>>]

Str(s) == [none |-> FALSE, s |-> s]

\* not v
Not(v) == v.none \/ v.s = <<>>

\* row.get(key, '') on the dictionary DictReader builds from one row: the
\* cells zipped with the header, and None (restval) under every header
\* column a short row does not reach.  A column the header lacks is absent
\* from the dictionary, and get() answers its default.
Get(header, row, key) ==
    IF \E k \in 1..Len(header) : header[k] = key
    THEN LET k == CHOOSE j \in 1..Len(header) : header[j] = key
         IN  IF k <= Len(row) THEN Str(row[k]) ELSE None
    ELSE Str(<<>>)

(***************************************************************************)
(* parse_participant_data: the body of the loop on one row.  It answers    *)
(* the list of trials after the row, or that the row raised.               *)
(***************************************************************************)
ProcessRow_ZeroBased(tr, header, row) ==
    LET trial_type == Get(header, row, "TrialType")
        context    == Get(header, row, "context")
        choice_raw == Get(header, row, "choice")
        reward     == Get(header, row, "reward")
    IN  IF trial_type.none
        THEN [raised |-> TRUE, trials |-> tr]
        ELSE IF /\ StartsWith(trial_type.s, <<"p", "i", "r", "a", "t", "e", "_">>)
                /\ ~StartsWith(trial_type.s,
                               <<"p", "r", "a", "c", "t", "i", "c", "e", "_">>)
                /\ ~(Not(context) \/ Not(choice_raw) \/ Not(reward))
        THEN [raised |-> FALSE,
              trials |-> Append(tr, [trial_num |-> Len(tr),
                                     context   |-> context.s,
                                     choice    |-> map_choice_to_action(choice_raw.s),
                                     reward    |-> reward.s])]
        ELSE [raised |-> FALSE, trials |-> tr]

ProcessRow_NoRewardTest(tr, header, row) ==
    LET trial_type == Get(header, row, "TrialType")
        context    == Get(header, row, "context")
        choice_raw == Get(header, row, "choice")
        reward     == Get(header, row, "reward")
    IN  IF trial_type.none
        THEN [raised |-> TRUE, trials |-> tr]
        ELSE IF /\ StartsWith(trial_type.s, <<"p", "i", "r", "a", "t", "e", "_">>)
                /\ ~StartsWith(trial_type.s,
                               <<"p", "r", "a", "c", "t", "i", "c", "e", "_">>)
                /\ ~(Not(context) \/ Not(choice_raw))
        THEN [raised |-> FALSE,
              trials |-> Append(tr, [trial_num |-> Len(tr) + 1,
                                     context   |-> context.s,
                                     choice    |-> map_choice_to_action(choice_raw.s),
                                     reward    |-> reward.s])]
        ELSE [raised |-> FALSE, trials |-> tr]

ProcessRow_RawChoice(tr, header, row) ==
    LET trial_type == Get(header, row, "TrialType")
        context    == Get(header, row, "context")
        choice_raw == Get(header, row, "choice")
        reward     == Get(header, row, "reward")
    IN  IF trial_type.none
        THEN [raised |-> TRUE, trials |-> tr]
        ELSE IF /\ StartsWith(trial_type.s, <<"p", "i", "r", "a", "t", "e", "_">>)
                /\ ~StartsWith(trial_type.s,
                               <<"p", "r", "a", "c", "t", "i", "c", "e", "_">>)
                /\ ~(Not(context) \/ Not(choice_raw) \/ Not(reward))
        THEN [raised |-> FALSE,
              trials |-> Append(tr, [trial_num |-> Len(tr) + 1,
                                     context   |-> context.s,
                                     choice    |-> choice_raw.s,
                                     reward    |-> reward.s])]
        ELSE [raised |-> FALSE, trials |-> tr]

\* trial_type is None on a short row that does not reach the TrialType
\* column: None has no startswith, and the call raises AttributeError.
ProcessRow(tr, header, row) ==
    LET trial_type == Get(header, row, "TrialType")
        context    == Get(header, row, "context")
        choice_raw == Get(header, row, "choice")
        reward     == Get(header, row, "reward")
    IN  IF trial_type.none
        THEN [raised |-> TRUE, trials |-> tr]
        ELSE IF /\ StartsWith(trial_type.s, <<"p", "i", "r", "a", "t", "e", "_">>)
                /\ ~StartsWith(trial_type.s,
                               <<"p", "r", "a", "c", "t", "i", "c", "e", "_">>)
                /\ ~(Not(context) \/ Not(choice_raw) \/ Not(reward))
        THEN [raised |-> FALSE,
              trials |-> Append(tr, [trial_num |-> Len(tr) + 1,
                                     context   |-> context.s,
                                     choice    |-> map_choice_to_action(choice_raw.s),
                                     reward    |-> reward.s])]
        ELSE [raised |-> FALSE, trials |-> tr]

\* parse_participant_data on a readable resource: the loop over all its
\* rows.  DictReader never yields a blank line (a row with no cell).
RECURSIVE ParseRows(_, _, _)
ParseRows(tr, header, rows) ==
    IF rows = <<>> THEN [raised |-> FALSE, trials |-> tr]
    ELSE IF Head(rows) = <<>> THEN ParseRows(tr, header, Tail(rows))
    ELSE LET r == ProcessRow(tr, header, Head(rows))
         IN  IF r.raised THEN r ELSE ParseRows(r.trials, header, Tail(rows))

parse_participant_data(header, rows) == ParseRows(<<>>, header, rows)

(***************************************************************************)
(* The resources parse_participant_data is run on.                         *)
(***************************************************************************)
MaxRows == 3

FullHeader == <<"TrialType", "context", "choice", "reward">>

Headers ==
    { FullHeader,
      <<"context", "choice", "reward", "TrialType">>,
      <<"TrialType", "context", "choice">> }

pirate_3 == <<"p", "i", "r", "a", "t", "e", "_", "3">>

practice_1 == <<"p", "r", "a", "c", "t", "i", "c", "e", "_", "1">>

ctx_A == <<"c", "t", "x", "_", "A">>

ctx_B == <<"c", "t", "x", "_", "B">>

white_pirate == <<"w", "h", "i", "t", "e", "_", "p", "i", "r", "a", "t", "e">>

\* The rows as field values: retained ones, a practice row, rows with one
\* empty field.
RowValues ==
    { [TrialType |-> pirate_3, context |-> ctx_A, choice |-> white_pirate,
       reward |-> <<"1">>],
      [TrialType |-> pirate_3, context |-> ctx_B, choice |-> <<"B", "L", "K">>,
       reward |-> <<"0">>],
      [TrialType |-> practice_1, context |-> ctx_A, choice |-> white_pirate,
       reward |-> <<"1">>],
      [TrialType |-> pirate_3, context |-> <<>>, choice |-> white_pirate,
       reward |-> <<"1">>],
      [TrialType |-> pirate_3, context |-> ctx_A, choice |-> <<>>,
       reward |-> <<"1">>],
      [TrialType |-> pirate_3, context |-> ctx_A, choice |-> white_pirate,
       reward |-> <<>>] }

Cells(header, v) == [k \in 1..Len(header) |-> v[header[k]]]

ShortRowValue ==
    [TrialType |-> pirate_3, context |-> ctx_A, choice |-> white_pirate,
     reward |-> <<"1">>]

\* The rows of a resource with this header: every row complete, one row
\* that stops one cell short, and a blank line.
RowsOf(header) ==
    {Cells(header, v) : v \in RowValues}
        \cup {SubSeq(Cells(header, ShortRowValue), 1, Len(header) - 1), <<>>}

\* The sequences over S of length at most n.
SeqsUpTo(S, n) == UNION {[1..k -> S] : k \in 0..n}

InitParse ==
    /\ pc = "loop"
    /\ fieldnames \in Headers
    /\ reader \in SeqsUpTo(RowsOf(fieldnames), MaxRows)
    /\ consumed = <<>>
    /\ trials = <<>>
    /\ IdleMap
    /\ IdleRender
    /\ IdleBatch

\* for row in reader: one turn of the loop.
LoopRow ==
    /\ pc = "loop"
    /\ reader # <<>>
    /\ LET row == Head(reader)
           r   == ProcessRow(trials, fieldnames, row)
       IN  /\ reader' = Tail(reader)
           /\ consumed' = Append(consumed, row)
           /\ IF row = <<>> THEN UNCHANGED <<pc, trials>>
              ELSE IF r.raised THEN pc' = "raised" /\ UNCHANGED trials
              ELSE trials' = r.trials /\ UNCHANGED pc
    /\ UNCHANGED <<fieldnames, mapVars, renderVars, batchVars>>

\* return trials
ReturnTrials ==
    /\ pc = "loop"
    /\ reader = <<>>
    /\ pc' = "returned"
    /\ UNCHANGED <<parseVars, trials, mapVars, renderVars, batchVars>>

NextParse == LoopRow \/ ReturnTrials

SpecParse == InitParse /\ [][NextParse]_vars

(***************************************************************************)
(* generate_transcript                                                     *)
(***************************************************************************)
\* c * n
RECURSIVE Repeat(_, _)
Repeat(c, n) == IF n <= 0 THEN <<>> ELSE <<c>> \o Repeat(c, n - 1)

Digit == <<"0", "1", "2", "3", "4", "5", "6", "7", "8", "9">>

\* The text an f-string gives a non-negative int.
RECURSIVE IntToStr(_)
IntToStr(n) ==
    IF n < 10 THEN <<Digit[n + 1]>>
    ELSE IntToStr(n \div 10) \o <<Digit[(n % 10) + 1]>>

\* sep.join(lines)
RECURSIVE Join(_, _)
Join(lines, sep) ==
    IF lines = <<>> THEN <<>>
    ELSE IF Len(lines) = 1 THEN lines[1]
    ELSE lines[1] \o sep \o Join(Tail(lines), sep)

\* The lines the loop appends for one trial.
TrialLines_NoBlank(trial) ==
    << <<"T", "R", "I", "A", "L", " ">> \o IntToStr(trial.trial_num),
       <<"C", "O", "N", "T", "E", "X", "T", ":", " ">> \o trial.context,
       <<"A", "V", "A", "I", "L", "A", "B", "L", "E", "_", "A", "C", "T", "I",
         "O", "N", "S", ":", " ", "R", "e", "d", ",", " ", "W", "h", "i", "t",
         "e", ",", " ", "B", "l", "a", "c", "k">>,
       <<"C", "H", "O", "O", "S", "E", "_", "A", "C", "T", "I", "O", "N", ":",
         " ">> \o trial.choice,
       <<"R", "E", "W", "A", "R", "D", ":", " ">> \o trial.reward >>

TrialLines(trial) ==
    << <<"T", "R", "I", "A", "L", " ">> \o IntToStr(trial.trial_num),
       <<"C", "O", "N", "T", "E", "X", "T", ":", " ">> \o trial.context,
       <<"A", "V", "A", "I", "L", "A", "B", "L", "E", "_", "A", "C", "T", "I",
         "O", "N", "S", ":", " ", "R", "e", "d", ",", " ", "W", "h", "i", "t",
         "e", ",", " ", "B", "l", "a", "c", "k">>,
       <<"C", "H", "O", "O", "S", "E", "_", "A", "C", "T", "I", "O", "N", ":",
         " ">> \o trial.choice,
       <<"R", "E", "W", "A", "R", "D", ":", " ">> \o trial.reward,
       <<>> >>

\* for trial in trials: the lines of all the trials, in order.
RECURSIVE AllTrialLines(_)
AllTrialLines(trs) ==
    IF trs = <<>> THEN <<>>
    ELSE TrialLines(Head(trs)) \o AllTrialLines(Tail(trs))

\* The seven lines appended before the loop.
HeaderLines(pid) ==
    << <<"P", "A", "R", "T", "I", "C", "I", "P", "A", "N", "T", ":", " ">>
           \o pid,
       Repeat("=", 60),
       <<"T", "A", "S", "K", ":", " ", "C", "o", "n", "t", "e", "x", "t", "u",
         "a", "l", " ", "b", "a", "n", "d", "i", "t", " ", "e", "x", "p", "e",
         "r", "i", "m", "e", "n", "t", ".">>,
       <<"A", "C", "T", "I", "O", "N", "S", ":", " ", "R", "e", "d", ",", " ",
         "W", "h", "i", "t", "e", ",", " ", "B", "l", "a", "c", "k", ".">>,
       <<"G", "O", "A", "L", ":", " ", "E", "a", "r", "n", " ", "a", "s", " ",
         "m", "a", "n", "y", " ", "r", "e", "w", "a", "r", "d", "s", " ", "a",
         "s", " ", "p", "o", "s", "s", "i", "b", "l", "e", ".">>,
       Repeat("=", 60),
       <<>> >>

generate_transcript(trs, pid) ==
    Join(HeaderLines(pid) \o AllTrialLines(trs), <<"\n">>)

(***************************************************************************)
(* The trial lists and identifiers generate_transcript is run on.          *)
(***************************************************************************)
MaxTrials == 2

TrialValues ==
    { [trial_num |-> 1, context |-> ctx_A,
       choice |-> <<"W", "h", "i", "t", "e">>, reward |-> <<"1">>],
      [trial_num |-> 2, context |-> ctx_B,
       choice |-> <<"B", "l", "a", "c", "k">>, reward |-> <<"0">>],
      [trial_num |-> 10, context |-> ctx_A,
       choice |-> <<"R", "e", "d">>, reward |-> <<"0">>],
      [trial_num |-> 120, context |-> <<"c", " ", "d">>,
       choice |-> <<"U", "n", "k", "n", "o", "w", "n">>,
       reward |-> <<"-", "1", ".", "5">>] }

ParticipantIds == { <<"1", "1", "3", "2">>, <<"p", "7">>, <<>> }

InitRender ==
    /\ pc = "call"
    /\ trials \in SeqsUpTo(TrialValues, MaxTrials)
    /\ participant_id \in ParticipantIds
    /\ transcript = <<>>
    /\ IdleMap
    /\ IdleParse
    /\ IdleBatch

Render ==
    /\ pc = "call"
    /\ transcript' = generate_transcript(trials, participant_id)
    /\ pc' = "return"
    /\ UNCHANGED <<trials, participant_id, mapVars, parseVars, batchVars>>

NextRender == Render

SpecRender == InitRender /\ [][NextRender]_vars

(***************************************************************************)
(* process_all_participants: discovery and naming                          *)
(***************************************************************************)
\* The characters of file names in code point order, as str comparison
\* (and so sorted() on paths of one directory) orders them.
CodeOrder == <<".">> \o Digit \o UpperCase \o <<"_">> \o LowerCase

Code(c) == CHOOSE k \in 1..Len(CodeOrder) : CodeOrder[k] = c

\* a < b on str
RECURSIVE StrLess(_, _)
StrLess(a, b) ==
    IF b = <<>> THEN FALSE
    ELSE IF a = <<>> THEN TRUE
    ELSE IF a[1] = b[1] THEN StrLess(Tail(a), Tail(b))
    ELSE Code(a[1]) < Code(b[1])

\* sorted(csv_files)
RECURSIVE Sorted(_)
Sorted(S) ==
    IF S = {} THEN <<>>
    ELSE LET least == CHOOSE x \in S : \A y \in S \ {x} : StrLess(x, y)
         IN  <<least>> \o Sorted(S \ {least})

EndsWith(s, suffix) ==
    /\ Len(s) >= Len(suffix)
    /\ SubSeq(s, Len(s) - Len(suffix) + 1, Len(s)) = suffix

\* A name that glob('participant_*.csv') matches.
GlobMatch(name) ==
    /\ Len(name) >= 16
    /\ StartsWith(name, <<"p", "a", "r", "t", "i", "c", "i", "p", "a", "n", "t",
                          "_">>)
    /\ EndsWith(name, <<".", "c", "s", "v">>)

\* The files the comprehension keeps.
Discovered(names) ==
    {f \in names :
        /\ GlobMatch(f)
        /\ ~Contains(f, <<"t", "r", "a", "n", "s", "f", "o", "r", "m", "e", "d">>)
        /\ ~Contains(f, <<"c", "o", "p", "y">>)}

\* Path.stem: the name without its last suffix.
Stem(name) ==
    LET dots == {k \in 1..Len(name) : name[k] = "."}
        last == CHOOSE k \in dots : \A j \in dots : j <= k
    IN  IF dots # {} /\ last > 1 /\ last < Len(name)
        THEN SubSeq(name, 1, last - 1)
        ELSE name

\* s.replace(old, ''): every occurrence of old is removed, left to right.
RECURSIVE Replace(_, _)
Replace(s, old) ==
    IF Len(s) < Len(old) THEN s
    ELSE IF SubSeq(s, 1, Len(old)) = old
    THEN Replace(SubSeq(s, Len(old) + 1, Len(s)), old)
    ELSE <<s[1]>> \o Replace(Tail(s), old)

\* The participant id of a file.
ParticipantId(csv_file) ==
    Replace(Stem(csv_file),
            <<"p", "a", "r", "t", "i", "c", "i", "p", "a", "n", "t", "_">>)

\* The name of the output file of a participant id.
OutputName(pid) ==
    <<"t", "r", "a", "n", "s", "c", "r", "i", "p", "t", "_">> \o pid
        \o <<".", "t", "x", "t">>

\* not trials
NoTrials_Never(tr) == FALSE

NoTrials(tr) == tr = <<>>

(***************************************************************************)
(* The directories process_all_participants is run on.                     *)
(***************************************************************************)
MaxFiles == 3

FileNames ==
    { <<"p", "a", "r", "t", "i", "c", "i", "p", "a", "n", "t", "_", "1", ".",
        "c", "s", "v">>,
      <<"p", "a", "r", "t", "i", "c", "i", "p", "a", "n", "t", "_", "2", ".",
        "c", "s", "v">>,
      <<"p", "a", "r", "t", "i", "c", "i", "p", "a", "n", "t", "_", "p", "a",
        "r", "t", "i", "c", "i", "p", "a", "n", "t", "_", "1", ".", "c", "s",
        "v">>,
      <<"p", "a", "r", "t", "i", "c", "i", "p", "a", "n", "t", "_", "1", "_",
        "c", "o", "p", "y", ".", "c", "s", "v">>,
      <<"n", "o", "t", "e", "s", ".", "c", "s", "v">> }

\* A file that cannot be opened or decoded.
Unreadable == [readable |-> FALSE, header |-> <<>>, rows |-> <<>>]

Readable(header, rows) == [readable |-> TRUE, header |-> header, rows |-> rows]

\* A file that cannot be read, one of practice rows only, one with a
\* retained trial, and one whose second row stops short of TrialType.
Resources ==
    { Unreadable,
      Readable(FullHeader, << <<practice_1, ctx_A, white_pirate, <<"1">> >> >>),
      Readable(FullHeader, << <<practice_1, ctx_A, white_pirate, <<"1">> >>,
                              <<pirate_3, ctx_B, white_pirate, <<"0">> >> >>),
      Readable(<<"context", "choice", "reward", "TrialType">>,
               << <<ctx_A, white_pirate, <<"1">>, pirate_3>>,
                  <<ctx_A, white_pirate, <<"1">> >> >>) }

Listings ==
    UNION {[D -> Resources] :
               D \in {E \in SUBSET FileNames : Cardinality(E) <= MaxFiles}}

EmptyDir == [f \in {} |-> <<>>]

\* The output directory before the run: empty, or holding the transcript
\* of participant 1 that an earlier run left.
OutputDirs ==
    { EmptyDir,
      [f \in {OutputName(<<"1">>)} |-> <<"o", "l", "d">>] }

\* How many characters of the document a failing write leaves in the file.
WriteCuts(doc) == {0, 1, Len(doc) \div 2, Len(doc) - 1}

(***************************************************************************)
(* process_all_participants                                                *)
(***************************************************************************)
Init ==
    /\ pc = "discover"
    /\ data_dir \in Listings
    /\ output_dir \in OutputDirs
    /\ output_before = output_dir
    /\ csv_files = <<>>
    /\ file_no = 0
    /\ log = <<>>
    /\ opened = <<>>
    /\ rendered = <<>>
    /\ trials = <<>>
    /\ IdleRender
    /\ IdleMap
    /\ IdleParse

Entry(what, name, doc) ==
    [file |-> csv_files[file_no], what |-> what, name |-> name, doc |-> doc]

\* csv_files = [...] and the entry into the loop over sorted(csv_files).
Discover ==
    /\ pc = "discover"
    /\ csv_files' = Sorted(Discovered(DOMAIN data_dir))
    /\ file_no' = 1
    /\ pc' = "parse"
    /\ UNCHANGED <<data_dir, output_dir, output_before, log, opened, rendered,
                   trials, renderVars, mapVars, parseVars>>

\* except Exception as e: the error is printed and the loop goes on with
\* the next file.
Caught_Propagates ==
    /\ log' = Append(log, Entry("error", <<>>, <<>>))
    /\ pc' = "done"
    /\ UNCHANGED file_no

Caught ==
    /\ log' = Append(log, Entry("error", <<>>, <<>>))
    /\ file_no' = file_no + 1
    /\ pc' = "parse"

\* The head of the loop body: the participant id, the parse, and the test
\* for an empty list of trials.
ParseFile ==
    /\ pc = "parse"
    /\ file_no <= Len(csv_files)
    /\ LET csv_file == csv_files[file_no]
           res      == data_dir[csv_file]
           r        == parse_participant_data(res.header, res.rows)
       IN  /\ participant_id' = ParticipantId(csv_file)
           /\ IF ~res.readable \/ r.raised
              THEN Caught /\ UNCHANGED trials
              ELSE /\ trials' = r.trials
                   /\ IF NoTrials(r.trials)
                      THEN /\ log' = Append(log, Entry("skipped", <<>>, <<>>))
                           /\ file_no' = file_no + 1
                           /\ pc' = "parse"
                      ELSE /\ pc' = "render"
                           /\ UNCHANGED <<log, file_no>>
    /\ UNCHANGED <<transcript, data_dir, csv_files, output_dir, output_before,
                   opened, rendered, mapVars, parseVars>>

\* transcript = generate_transcript(trials, participant_id)
RenderTranscript ==
    /\ pc = "render"
    /\ transcript' = generate_transcript(trials, participant_id)
    /\ rendered' = Append(rendered, csv_files[file_no])
    /\ pc' = "open"
    /\ UNCHANGED <<trials, participant_id, data_dir, csv_files, file_no,
                   output_dir, output_before, log, opened, mapVars, parseVars>>

\* generate_transcript raises (MemoryError building the string).
RenderFails_Truncating ==
    /\ pc = "render"
    /\ rendered' = Append(rendered, csv_files[file_no])
    /\ output_dir' = (OutputName(participant_id) :> <<>>) @@ output_dir
    /\ Caught
    /\ UNCHANGED <<trials, renderVars, data_dir, csv_files, output_before,
                   opened, mapVars, parseVars>>

RenderFails ==
    /\ pc = "render"
    /\ rendered' = Append(rendered, csv_files[file_no])
    /\ Caught
    /\ UNCHANGED <<trials, renderVars, data_dir, csv_files, output_dir,
                   output_before, opened, mapVars, parseVars>>

\* open(output_file, 'w', encoding='utf-8'): the file is created, or
\* truncated if it is there.
OpenOutput ==
    /\ pc = "open"
    /\ LET output_file == OutputName(participant_id)
       IN  /\ output_dir' = (output_file :> <<>>) @@ output_dir
           /\ opened' = Append(opened, [file |-> csv_files[file_no],
                                        name |-> output_file,
                                        doc  |-> transcript])
    /\ pc' = "write"
    /\ UNCHANGED <<trials, renderVars, data_dir, csv_files, file_no,
                   output_before, log, rendered, mapVars, parseVars>>

\* open raises (the file cannot be created or written to).
OpenFails ==
    /\ pc = "open"
    /\ Caught
    /\ UNCHANGED <<trials, renderVars, data_dir, csv_files, output_dir,
                   output_before, opened, rendered, mapVars, parseVars>>

\* f.write(transcript) and the close of the with block.
WriteOutput ==
    /\ pc = "write"
    /\ LET output_file == OutputName(participant_id)
       IN  /\ output_dir' = (output_file :> transcript) @@ output_dir
           /\ log' = Append(log, Entry("written", output_file, transcript))
    /\ file_no' = file_no + 1
    /\ pc' = "parse"
    /\ UNCHANGED <<trials, renderVars, data_dir, csv_files, output_before,
                   opened, rendered, mapVars, parseVars>>

\* The write or the flush at close raises (disk full, I/O error): what had
\* reached the file stays in it.
WriteFails ==
    /\ pc = "write"
    /\ \E n \in WriteCuts(transcript) :
           output_dir' = (OutputName(participant_id) :> SubSeq(transcript, 1, n))
                             @@ output_dir
    /\ Caught
    /\ UNCHANGED <<trials, renderVars, data_dir, csv_files, output_before,
                   opened, rendered, mapVars, parseVars>>

\* The loop has run through csv_files: process_all_participants returns.
Finish ==
    /\ pc = "parse"
    /\ file_no > Len(csv_files)
    /\ pc' = "done"
    /\ UNCHANGED <<trials, renderVars, batchVars, mapVars, parseVars>>

Next ==
    \/ Discover
    \/ ParseFile
    \/ RenderTranscript
    \/ RenderFails
    \/ OpenOutput
    \/ OpenFails
    \/ WriteOutput
    \/ WriteFails
    \/ Finish

Spec == Init /\ [][Next]_vars

(***************************************************************************)
(* What the specification says of the program, stated independently of    *)
(* the operators above.                                                    *)
(***************************************************************************)
\* The same letter, in either case.
SameLetter(a, b) ==
    a = b \/ \E k \in 1..26 : {a, b} = {UpperCase[k], LowerCase[k]}

\* s contains the keyword kw, case-insensitively.
HasKeyword(s, kw) ==
    \E i \in 1..(Len(s) - Len(kw) + 1) :
        \A k \in 1..Len(kw) : SameLetter(s[i + k - 1], kw[k])

HasRed(s) == HasKeyword(s, <<"r", "e", "d">>)

HasWhite(s) == HasKeyword(s, <<"w", "h", "i", "t", "e">>)

HasBlack(s) == HasKeyword(s, <<"b", "l", "a", "c", "k">>)

FieldOrEmpty(header, row, key) ==
    IF \E k \in 1..Len(header) : header[k] = key /\ k <= Len(row)
    THEN row[CHOOSE k \in 1..Len(header) : header[k] = key]
    ELSE <<>>

HasPrefix(s, p) == Len(s) >= Len(p) /\ \A k \in 1..Len(p) : s[k] = p[k]

\* The retention rule of the specification.
ShouldRetain(header, row) ==
    /\ HasPrefix(FieldOrEmpty(header, row, "TrialType"),
                 <<"p", "i", "r", "a", "t", "e", "_">>)
    /\ ~HasPrefix(FieldOrEmpty(header, row, "TrialType"),
                  <<"p", "r", "a", "c", "t", "i", "c", "e", "_">>)
    /\ FieldOrEmpty(header, row, "context") # <<>>
    /\ FieldOrEmpty(header, row, "choice") # <<>>
    /\ FieldOrEmpty(header, row, "reward") # <<>>

\* The positions, among the rows read so far, of the rows to retain.
RetainedRows == {i \in 1..Len(consumed) : ShouldRetain(fieldnames, consumed[i])}

\* The position of the k-th row to retain.
KthRetained(k) ==
    CHOOSE i \in RetainedRows : Cardinality({j \in RetainedRows : j <= i}) = k

\* C1: after any prefix of the rows, the trial_num values of the trials
\* retained so far are 1, 2, ..., N in list order.
C1_SequentialNumbering ==
    \A k \in 1..Len(trials) : trials[k].trial_num = k

\* Two trials are retained, numbered 1 and 2, from rows 2 and 3 of the
\* resource: row 1 was skipped.
C1_Witness ==
    /\ Len(consumed) = 3
    /\ RetainedRows = {2, 3}
    /\ Len(trials) = 2
    /\ trials[2].trial_num = 2

\* C2: each turn of the loop appends a trial if and only if the row it read
\* is a pirate_ row whose context, choice and reward are all non-empty, and
\* otherwise leaves the list as it was.
C2_RetainedIff ==
    [][ (pc = "loop" /\ reader # <<>>) =>
            IF ShouldRetain(fieldnames, Head(reader))
            THEN Len(trials') = Len(trials) + 1
            ELSE trials' = trials ]_vars

\* A practice_1 row and a pirate_3 row with an empty reward were skipped and
\* a complete pirate_3 row retained.
C2_Witness ==
    /\ fieldnames = FullHeader
    /\ consumed = << <<practice_1, ctx_A, white_pirate, <<"1">> >>,
                     <<pirate_3, ctx_A, white_pirate, <<>> >>,
                     <<pirate_3, ctx_A, white_pirate, <<"1">> >> >>
    /\ Len(trials) = 1

\* C4: no row of a readable resource makes parse_participant_data raise.
C4_RowsNeverRaise == pc # "raised"

\* C10, in every state: the trials are the retained rows in the order read,
\* each with the row's context and reward unchanged and its choice mapped.
C10_Subsequence ==
    /\ Len(trials) = Cardinality(RetainedRows)
    /\ \A k \in 1..Len(trials) :
           LET row == consumed[KthRetained(k)]
           IN  /\ trials[k].context = FieldOrEmpty(fieldnames, row, "context")
               /\ trials[k].reward = FieldOrEmpty(fieldnames, row, "reward")
               /\ trials[k].choice
                      = map_choice_to_action(FieldOrEmpty(fieldnames, row, "choice"))

\* C10, in every step: a trial once appended is neither changed nor removed.
C10_Kept ==
    /\ Len(trials') >= Len(trials)
    /\ \A k \in 1..Len(trials) : trials'[k] = trials[k]

\* C10: the output is the subsequence of retained rows, passed through
\* verbatim, and it only grows.
C10_RetainedInOrder == [](C10_Subsequence) /\ [][C10_Kept]_vars

\* Rows 1 and 3 of three were retained, in that order, row 3's choice BLK
\* mapped to Unknown and its reward 0 kept.
C10_Witness ==
    /\ Len(consumed) = 3
    /\ RetainedRows = {1, 3}
    /\ Len(trials) = 2
    /\ trials[1].context = ctx_A
    /\ trials[2].context = ctx_B
    /\ trials[2].choice = <<"U", "n", "k", "n", "o", "w", "n">>
    /\ trials[2].reward = <<"0">>

\* The lines of a document: the text between its newline characters.
RECURSIVE SplitLines(_)
SplitLines(s) ==
    IF \E i \in 1..Len(s) : s[i] = "\n"
    THEN LET i == CHOOSE j \in 1..Len(s) :
                      s[j] = "\n" /\ \A m \in 1..(j - 1) : s[m] # "\n"
         IN  <<SubSeq(s, 1, i - 1)>> \o SplitLines(SubSeq(s, i + 1, Len(s)))
    ELSE <<s>>

\* A decimal numeral without sign or leading zero, and the number it writes.
IsNumeral(d) ==
    /\ Len(d) >= 1
    /\ \A k \in 1..Len(d) : \E v \in 1..10 : Digit[v] = d[k]
    /\ Len(d) > 1 => d[1] # "0"

RECURSIVE NumeralValue(_)
NumeralValue(d) ==
    IF d = <<>> THEN 0
    ELSE 10 * NumeralValue(SubSeq(d, 1, Len(d) - 1))
             + (CHOOSE v \in 0..9 : Digit[v + 1] = d[Len(d)])

\* line is prefix followed by the numeral of n.
IsNumbered(line, prefix, n) ==
    /\ HasPrefix(line, prefix)
    /\ LET d == SubSeq(line, Len(prefix) + 1, Len(line))
       IN  IsNumeral(d) /\ NumeralValue(d) = n

IsSeparator(line) == Len(line) = 60 /\ \A k \in 1..Len(line) : line[k] = "="

\* C9: the document generate_transcript returns is, line by line, the
\* seven-line header block and then, for each trial in order, the five
\* lines of the trial followed by one blank line; with no trial it is the
\* header block alone.
C9_DocumentGrammar ==
    pc = "return" =>
        LET L == SplitLines(transcript)
            N == Len(trials)
        IN  /\ Len(L) = 7 + 6 * N
            /\ L[1] = <<"P", "A", "R", "T", "I", "C", "I", "P", "A", "N", "T",
                        ":", " ">> \o participant_id
            /\ IsSeparator(L[2])
            /\ L[3] = <<"T", "A", "S", "K", ":", " ", "C", "o", "n", "t", "e",
                        "x", "t", "u", "a", "l", " ", "b", "a", "n", "d", "i",
                        "t", " ", "e", "x", "p", "e", "r", "i", "m", "e", "n",
                        "t", ".">>
            /\ L[4] = <<"A", "C", "T", "I", "O", "N", "S", ":", " ", "R", "e",
                        "d", ",", " ", "W", "h", "i", "t", "e", ",", " ", "B",
                        "l", "a", "c", "k", ".">>
            /\ L[5] = <<"G", "O", "A", "L", ":", " ", "E", "a", "r", "n", " ",
                        "a", "s", " ", "m", "a", "n", "y", " ", "r", "e", "w",
                        "a", "r", "d", "s", " ", "a", "s", " ", "p", "o", "s",
                        "s", "i", "b", "l", "e", ".">>
            /\ IsSeparator(L[6])
            /\ L[7] = <<>>
            /\ \A k \in 1..N :
                   LET b == 7 + 6 * (k - 1)
                   IN  /\ IsNumbered(L[b + 1], <<"T", "R", "I", "A", "L", " ">>,
                                     trials[k].trial_num)
                       /\ L[b + 2] = <<"C", "O", "N", "T", "E", "X", "T", ":",
                                       " ">> \o trials[k].context
                       /\ L[b + 3] = <<"A", "V", "A", "I", "L", "A", "B", "L",
                                       "E", "_", "A", "C", "T", "I", "O", "N",
                                       "S", ":", " ", "R", "e", "d", ",", " ",
                                       "W", "h", "i", "t", "e", ",", " ", "B",
                                       "l", "a", "c", "k">>
                       /\ L[b + 4] = <<"C", "H", "O", "O", "S", "E", "_", "A",
                                       "C", "T", "I", "O", "N", ":", " ">>
                                         \o trials[k].choice
                       /\ L[b + 5] = <<"R", "E", "W", "A", "R", "D", ":", " ">>
                                         \o trials[k].reward
                       /\ L[b + 6] = <<>>

\* A document of two trials, numbered 120 and 2, has been rendered.
C9_Witness ==
    /\ pc = "return"
    /\ Len(trials) = 2
    /\ trials[1].trial_num = 120
    /\ trials[2].trial_num = 2
    /\ Len(SplitLines(transcript)) = 19

\* The rows of a file that the specification's rule retains.
RetainedOf(file) ==
    LET res == data_dir[file]
    IN  {i \in 1..Len(res.rows) : ShouldRetain(res.header, res.rows[i])}

\* The parse of the file returns, and returns no trial.
YieldsNoTrial(file) ==
    LET res == data_dir[file]
    IN  /\ res.readable
        /\ ~parse_participant_data(res.header, res.rows).raised
        /\ RetainedOf(file) = {}

\* The parse of the file returns at least one trial.
YieldsTrials(file) ==
    LET res == data_dir[file]
    IN  /\ res.readable
        /\ ~parse_participant_data(res.header, res.rows).raised
        /\ RetainedOf(file) # {}

\* The document of a file: its trials rendered under its participant id.
FullDoc(file) ==
    LET res == data_dir[file]
    IN  generate_transcript(parse_participant_data(res.header, res.rows).trials,
                            ParticipantId(file))

IsPrefix(p, s) == Len(p) <= Len(s) /\ \A k \in 1..Len(p) : p[k] = s[k]

\* C5, in every state: the participants are dealt with in the order of
\* csv_files, none is left out whatever failed before it, and a participant
\* that did not fail itself is skipped or gets its own full document under
\* its own output name, as its resource alone decides; the run ends only
\* when every participant has been dealt with.
C5_Isolated ==
    /\ Len(log) <= Len(csv_files)
    /\ \A k \in 1..Len(log) :
           /\ log[k].file = csv_files[k]
           /\ log[k].what \in {"error", "skipped", "written"}
           /\ log[k].what = "skipped" => YieldsNoTrial(log[k].file)
           /\ log[k].what = "written" =>
                  /\ YieldsTrials(log[k].file)
                  /\ log[k].name = OutputName(ParticipantId(log[k].file))
                  /\ log[k].doc = FullDoc(log[k].file)
    /\ pc = "done" => Len(log) = Len(csv_files)

\* The steps the run can still take, at most: four for each file not yet
\* dealt with, and the return.
Remaining ==
    CASE pc = "discover" -> 4 * Cardinality(DOMAIN data_dir) + 2
      [] pc = "parse"    -> 4 * (Len(csv_files) - file_no) + 5
      [] pc = "render"   -> 4 * (Len(csv_files) - file_no) + 4
      [] pc = "open"     -> 4 * (Len(csv_files) - file_no) + 3
      [] pc = "write"    -> 4 * (Len(csv_files) - file_no) + 2
      [] OTHER           -> 0

\* The run is not stuck: it is complete, or at a position whose statement
\* can run (discovery, the head of the loop with a file to parse or none
\* left, the render, the open, the write).
CanStep ==
    \/ pc = "done"
    \/ pc = "discover"
    \/ pc = "parse" /\ file_no <= Len(csv_files)
                    /\ csv_files[file_no] \in DOMAIN data_dir
    \/ pc = "parse" /\ file_no > Len(csv_files)
    \/ pc \in {"render", "open", "write"} /\ file_no <= Len(csv_files)

\* C5: a failure on one participant is caught at that participant, the
\* participants after it are still processed with the outcome their own
\* resource decides, and the run reaches completion: until it is complete
\* it can always take a step, and every step brings completion nearer.
C5_FailureIsolation ==
    /\ [](C5_Isolated /\ Remaining >= 0 /\ CanStep)
    /\ [][Remaining' < Remaining]_vars

\* The run is complete: the first of three participants failed, and the
\* second and third were processed, one to a skip and one to a transcript.
C5_Witness ==
    /\ pc = "done"
    /\ Len(log) = 3
    /\ log[1].what = "error"
    /\ log[2].what = "skipped"
    /\ log[3].what = "written"

\* C6, as claimed, in the states the run is in between two participants
\* and at its end (so also after a parse, render or write failure): the
\* artifact of every participant is absent, or as it was before the run,
\* or the participant's full document.
C6_NoPartialOutput ==
    pc \in {"parse", "done"} =>
        \A k \in 1..Len(csv_files) :
            LET out == OutputName(ParticipantId(csv_files[k]))
            IN  \/ out \notin DOMAIN output_dir
                \/ /\ out \in DOMAIN output_before
                   /\ output_dir[out] = output_before[out]
                \/ /\ YieldsTrials(csv_files[k])
                   /\ output_dir[out] = FullDoc(csv_files[k])

\* C6, amended: an artifact is opened only with the participant's full
\* document already constructed; an artifact the run never opened is as it
\* was before the run; an artifact the run opened holds a prefix of the
\* document of the participant that opened it last, and the whole of it
\* once that participant's write has succeeded.
C6_OpenedAfterConstructed ==
    /\ \A k \in 1..Len(opened) :
           /\ YieldsTrials(opened[k].file)
           /\ opened[k].doc = FullDoc(opened[k].file)
           /\ opened[k].name = OutputName(ParticipantId(opened[k].file))
    /\ DOMAIN output_before \subseteq DOMAIN output_dir
    /\ \A out \in DOMAIN output_dir :
           LET opens == {k \in 1..Len(opened) : opened[k].name = out}
           IN  IF opens = {}
               THEN /\ out \in DOMAIN output_before
                    /\ output_dir[out] = output_before[out]
               ELSE LET o == opened[CHOOSE k \in opens : \A j \in opens : j <= k]
                    IN  /\ IsPrefix(output_dir[out], o.doc)
                        /\ (\E j \in 1..Len(log) :
                                log[j].file = o.file /\ log[j].what = "written")
                               => output_dir[out] = o.doc

\* The run is complete; a render failure left the old transcript of
\* participant 1 as it was, and a failed write left the artifact of
\* participant 2 cut short.
C6_Witness ==
    /\ pc = "done"
    /\ OutputName(<<"1">>) \in DOMAIN output_before
    /\ Len(log) = 2
    /\ log[1].what = "error"
    /\ log[2].what = "error"
    /\ Len(rendered) = 2
    /\ Len(opened) = 1
    /\ opened[1].name = OutputName(<<"2">>)
    /\ output_dir[OutputName(<<"1">>)] = <<"o", "l", "d">>
    /\ Len(output_dir[OutputName(<<"2">>)]) > 1
    /\ Len(output_dir[OutputName(<<"2">>)]) < Len(opened[1].doc)

\* C7: a participant whose parse returns no trial is logged as skipped,
\* generate_transcript is never called for it, no output file is opened
\* for it, and the run goes on to the end of csv_files.
C7_NoArtifactForEmpty ==
    /\ \A j \in 1..Len(rendered) : ~YieldsNoTrial(rendered[j])
    /\ \A j \in 1..Len(opened) : ~YieldsNoTrial(opened[j].file)
    /\ \A k \in 1..Len(log) :
           YieldsNoTrial(log[k].file) => log[k].what = "skipped"
    /\ pc = "done" => Len(log) = Len(csv_files)

\* The run is complete: participant 1 had practice rows only and was
\* skipped, no file was opened for it, and participant 2 after it got its
\* transcript.
C7_Witness ==
    /\ pc = "done"
    /\ Len(log) = 2
    /\ YieldsNoTrial(log[1].file)
    /\ log[1].what = "skipped"
    /\ log[2].what = "written"
    /\ output_before = EmptyDir
    /\ DOMAIN output_dir = {OutputName(<<"2">>)}

\* C8: no output file is opened for writing more than once in a run.
C8_WrittenOnce ==
    \A a, b \in 1..Len(opened) : a # b => opened[a].name # opened[b].name

====
